---- MODULE Spec2Model ----
(***************************************************************************)
(* Model of openapilib/serialization.py: the recursive serializer with     *)
(* deduplicating reference substitution (serialize_spec, serialize,        *)
(* SerializationContext, spec_to_dict, rename_key, filter_attributes).     *)
(*                                                                         *)
(* Strings are sequences of one-character strings, so that rename_key and  *)
(* camelcase work on characters.  Python values are tagged records:        *)
(*   [k |-> "str", chars], [k |-> "none"], [k |-> "skip"],                  *)
(*   [k |-> "list", items], [k |-> "dict", items] (insertion ordered),      *)
(*   [k |-> "obj", cls, mbr, ref_name, fields] (an instance of Base).      *)
(***************************************************************************)
EXTENDS Integers, Sequences, FiniteSets, TLC

\* ------------------------------------------------------------------ bounds
\* Longest field name rename_key is tried on.
MaxKeyLen == 3
\* Number of elements of the root document's "paths" list.
MaxPaths == 2
\* Number of fields of the objects spec_to_dict is tried on.
MaxFields == 2

\* ------------------------------------------------------------------ values
Str(chars) == [k |-> "str", chars |-> chars]
None == [k |-> "none"]
SKIP == [k |-> "skip"]
List(items) == [k |-> "list", items |-> items]
Dict(items) == [k |-> "dict", items |-> items]
Item(key, val) == [key |-> key, val |-> val]

\* ref_name = None (a reference name is never the empty string here)
NoRefName == <<>>

NoMeta == [has_spec_name |-> FALSE, spec_name |-> <<>>, non_spec |-> FALSE]
NonSpec == [has_spec_name |-> FALSE, spec_name |-> <<>>, non_spec |-> TRUE]
SpecName(n) == [has_spec_name |-> TRUE, spec_name |-> n, non_spec |-> FALSE]
Field(name, metadata, value) == [name |-> name, metadata |-> metadata, value |-> value]

Obj(cls, mbr, ref_name, fields) ==
    [k |-> "obj", cls |-> cls, mbr |-> mbr, ref_name |-> ref_name, fields |-> fields]

\* isinstance(obj, Base)
IsBase(v) == v.k = "obj"
\* isinstance(spec, MayBeReferenced)
IsMayBeReferenced(v) == v.k = "obj" /\ v.mbr

Last(s) == s[Len(s)]
Front(s) == SubSeq(s, 1, Len(s) - 1)

\* ------------------------------------------------------- Python dict writes
\* d[key] = val on an insertion-ordered dict: an existing key keeps its
\* position and gets the new value, a new key is appended.
HasKey(items, key) == \E i \in 1..Len(items) : items[i].key = key
dict_set(items, key, val) ==
    IF HasKey(items, key)
    THEN [i \in 1..Len(items) |->
            IF items[i].key = key THEN Item(key, val) ELSE items[i]]
    ELSE Append(items, Item(key, val))
dict_get(items, key) ==
    LET i == CHOOSE j \in 1..Len(items) : items[j].key = key IN items[i].val

\* ------------------------------------------------------------- rename_key
Separators == {"-", "_", "."}
Letters == <<"a", "b", "c", "d", "e", "f", "g", "h", "i", "j", "k", "l", "m",
             "n", "o", "p", "q", "r", "s", "t", "u", "v", "w", "x", "y", "z">>
Capitals == <<"A", "B", "C", "D", "E", "F", "G", "H", "I", "J", "K", "L", "M",
              "N", "O", "P", "Q", "R", "S", "T", "U", "V", "W", "X", "Y", "Z">>
IsLower(c) == \E i \in 1..Len(Letters) : Letters[i] = c
IsUpper(c) == \E i \in 1..Len(Capitals) : Capitals[i] = c
lowercase(c) ==
    IF IsUpper(c) THEN Letters[CHOOSE i \in 1..Len(Capitals) : Capitals[i] = c] ELSE c
uppercase(c) ==
    IF IsLower(c) THEN Capitals[CHOOSE i \in 1..Len(Letters) : Letters[i] = c] ELSE c

\* re.sub(r"[\-_\.\s]([a-z])", upper of the letter, s): left to right,
\* non-overlapping.
RECURSIVE SubSeparators(_)
SubSeparators(s) ==
    IF s = <<>> THEN <<>>
    ELSE IF Len(s) >= 2 /\ s[1] \in Separators /\ IsLower(s[2])
         THEN <<uppercase(s[2])>> \o SubSeparators(SubSeq(s, 3, Len(s)))
         ELSE <<s[1]>> \o SubSeparators(Tail(s))

\* stringcase.camelcase: drop one leading separator, lower the first
\* character, replace every separator+lowercase letter by the upper letter.
camelcase(s) ==
    LET string == IF s # <<>> /\ s[1] \in Separators THEN Tail(s) ELSE s
    IN IF string = <<>> THEN string
       ELSE <<lowercase(string[1])>> \o SubSeparators(Tail(string))

\* rename_key(key, a): [err, val]; err = "AssertionError" when an assert fails.
rename_key(key, a) ==
    LET fail1 == key # <<>> /\ key[1] = "_" /\ ~(Len(key) > 1)
        key1 == IF key # <<>> /\ key[1] = "_" THEN Tail(key) ELSE key
        fail2 == key1 # <<>> /\ Last(key1) = "_" /\ ~(Len(key1) > 1)
        key2 == IF key1 # <<>> /\ Last(key1) = "_" THEN Front(key1) ELSE key1
    IN IF fail1 \/ fail2
       THEN [err |-> "AssertionError", val |-> <<>>]
       ELSE [err |-> "ok",
             val |-> IF a.has_spec_name THEN a.spec_name ELSE camelcase(key2)]

\* ------------------------------------------------------ filter_attributes
\* Variant: a None value is dropped like SKIP (equality instead of identity
\* with the sentinel).
filter_attributes_drops_none(attribute, value) ==
    LET is_skipped == value = SKIP \/ value = None
        non_spec == attribute.non_spec
    IN (~is_skipped) /\ ~non_spec

filter_attributes(attribute, value) ==
    LET is_skipped == value = SKIP
        non_spec == attribute.non_spec
    IN (~is_skipped) /\ ~non_spec

\* ------------------------------------------------------------ the registry
\* Components: the reference registry, an insertion-ordered mapping from
\* reference name to the stored object.  Its state is the sequence of items;
\* the instance itself appears in object graphs as ComponentsObj.
ComponentsObj == Obj("Components", FALSE, NoRefName, <<>>)
IsComponents(v) == v.k = "obj" /\ v.cls = "Components"

\* Components.get_stored(component): the entry under component.ref_name.
get_stored(reg, component) ==
    IF HasKey(reg, component.ref_name)
    THEN [found |-> TRUE, obj |-> dict_get(reg, component.ref_name)]
    ELSE [found |-> FALSE, obj |-> None]

\* Components.store(component): first write wins.
store(reg, component) ==
    IF HasKey(reg, component.ref_name) THEN reg
    ELSE Append(reg, Item(component.ref_name, component))

\* Components.get_ref(component): a Reference locating the entry by name.
LocatorPrefix == <<"#/components/schemas/">>
get_ref(component) ==
    Obj("Reference", FALSE, NoRefName,
        <<Field(<<"r", "e", "f">>, SpecName(<<"$", "r", "e", "f">>),
                Str(LocatorPrefix \o component.ref_name))>>)

\* The fields of an instance, in declaration order (fields_by_name /
\* attr.asdict): a Components instance exposes its live mapping.
fields_by_name(spec, reg) ==
    IF IsComponents(spec)
    THEN <<Field(<<"s", "c", "h", "e", "m", "a", "s">>, NoMeta, Dict(reg))>>
    ELSE spec.fields

\* ------------------------------------------------------------ spec_to_dict
RECURSIVE RenamedItems(_, _)
RenamedItems(filtered, n) ==
    IF n = 0 THEN <<>>
    ELSE dict_set(RenamedItems(filtered, n - 1),
                  rename_key(filtered[n].name, filtered[n].metadata).val,
                  filtered[n].value)

\* spec_to_dict(spec): [err, val]; the values are not serialized here.
spec_to_dict(spec, reg) ==
    LET fields == fields_by_name(spec, reg)
        filtered == SelectSeq(fields, LAMBDA f : filter_attributes(f.metadata, f.value))
        raised == \E i \in 1..Len(filtered) :
                     rename_key(filtered[i].name, filtered[i].metadata).err # "ok"
    IN IF raised
       THEN [err |-> "AssertionError", val |-> None]
       ELSE [err |-> "ok", val |-> Dict(RenamedItems(filtered, Len(filtered)))]

\* ---------------------------------------------------- SerializationContext
\* self = [disable_referencing, has_components]; has_components is
\* "self.components is not None".  st = [reg, log, err] is threaded through
\* the recursion: the registry's state, the calls made on it, and the
\* exception raised so far ("ok" when none).
Context(disable_referencing, has_components) ==
    [disable_referencing |-> disable_referencing, has_components |-> has_components]
State(reg, log, err) == [reg |-> reg, log |-> log, err |-> err]
Event(op, spec, found) == [op |-> op, name |-> spec.ref_name, obj |-> spec, found |-> found]
NotReferenced(st) == [none |-> TRUE, val |-> None, st |-> st]

\* Variants of serialize_maybe_reference, by mode:
\*   "inline_existing"  an object found in the registry is expanded inline
\*   "overwrite"        an object found in the registry replaces the entry
\*   "store_again"      store is called whether or not an entry was found
\*   "ignore_flag"      disable_referencing is not consulted
\*   "skip_store"       a new object is not stored, a token is returned
serialize_maybe_reference_variant(self, st, spec, mode) ==
    IF ~IsMayBeReferenced(spec) THEN NotReferenced(st)
    ELSE IF mode # "ignore_flag" /\ self.disable_referencing THEN NotReferenced(st)
    ELSE IF spec.ref_name = NoRefName THEN NotReferenced(st)
    ELSE IF ~self.has_components
    THEN NotReferenced([st EXCEPT !.err = "AttributeError"])
    ELSE LET existing == get_stored(st.reg, spec)
             log1 == Append(st.log, Event("get_stored", spec, existing.found))
             stores == CASE mode = "skip_store" -> FALSE
                         [] mode \in {"overwrite", "store_again"} -> TRUE
                         [] OTHER -> ~existing.found
             reg2 == IF ~stores THEN st.reg
                     ELSE IF mode = "overwrite"
                     THEN dict_set(st.reg, spec.ref_name, spec)
                     ELSE store(st.reg, spec)
             log2 == IF stores THEN Append(log1, Event("store", spec, FALSE))
                     ELSE IF existing.found
                     THEN Append(log1, Event("found_existing", spec, TRUE))
                     ELSE log1
             log3 == Append(log2, Event("get_ref", spec, existing.found))
             d == spec_to_dict(get_ref(spec), reg2)
         IN IF mode = "inline_existing" /\ existing.found
            THEN NotReferenced(State(reg2, log2, "ok"))
            ELSE [none |-> FALSE, val |-> d.val, st |-> State(reg2, log3, d.err)]
serialize_maybe_reference_inline_existing(self, st, spec) ==
    serialize_maybe_reference_variant(self, st, spec, "inline_existing")
serialize_maybe_reference_overwrite(self, st, spec) ==
    serialize_maybe_reference_variant(self, st, spec, "overwrite")
serialize_maybe_reference_store_again(self, st, spec) ==
    serialize_maybe_reference_variant(self, st, spec, "store_again")
serialize_maybe_reference_ignore_flag(self, st, spec) ==
    serialize_maybe_reference_variant(self, st, spec, "ignore_flag")
serialize_maybe_reference_skip_store(self, st, spec) ==
    serialize_maybe_reference_variant(self, st, spec, "skip_store")

\* serialize_maybe_reference(spec): [none, val, st]; none means it returned
\* None.
serialize_maybe_reference(self, st, spec) ==
    IF ~IsMayBeReferenced(spec) THEN NotReferenced(st)
    ELSE IF self.disable_referencing THEN NotReferenced(st)
    ELSE IF spec.ref_name = NoRefName THEN NotReferenced(st)
    ELSE IF ~self.has_components
    THEN NotReferenced([st EXCEPT !.err = "AttributeError"])
    ELSE LET existing == get_stored(st.reg, spec)
             log1 == Append(st.log, Event("get_stored", spec, existing.found))
             reg2 == IF existing.found THEN st.reg ELSE store(st.reg, spec)
             log2 == IF existing.found
                     THEN Append(log1, Event("found_existing", spec, TRUE))
                     ELSE Append(log1, Event("store", spec, FALSE))
             log3 == Append(log2, Event("get_ref", spec, existing.found))
             d == spec_to_dict(get_ref(spec), reg2)
         IN [none |-> FALSE, val |-> d.val, st |-> State(reg2, log3, d.err)]

RECURSIVE ctx_serialize(_, _, _), serialize_value(_, _, _),
          serialize_dict(_, _, _, _), serialize_list(_, _, _, _)

\* SerializationContext.serialize(obj): [val, st]
ctx_serialize(self, st, obj) ==
    IF st.err # "ok" THEN [val |-> None, st |-> st]
    ELSE IF IsBase(obj)
    THEN LET reference == serialize_maybe_reference(self, st, obj)
         IN IF reference.st.err # "ok" THEN [val |-> None, st |-> reference.st]
            ELSE IF ~reference.none
            THEN serialize_value(self, reference.st, reference.val)
            ELSE LET d == spec_to_dict(obj, reference.st.reg)
                 IN IF d.err # "ok"
                    THEN [val |-> None, st |-> [reference.st EXCEPT !.err = d.err]]
                    ELSE serialize_value(self, reference.st, d.val)
    ELSE serialize_value(self, st, obj)

\* SerializationContext.serialize_value(value): [val, st]
serialize_value(self, st, value) ==
    IF value.k = "dict"
    THEN LET r == serialize_dict(self, st, value.items, Len(value.items))
         IN [val |-> Dict(r.val), st |-> r.st]
    ELSE IF value.k = "list"
    THEN LET r == serialize_list(self, st, value.items, Len(value.items))
         IN [val |-> List(r.val), st |-> r.st]
    ELSE [val |-> value, st |-> st]

\* {self.serialize(k): self.serialize(v) for k, v in value.items()}, the
\* first n items.  Keys are strings, which serialize to themselves.
serialize_dict(self, st, items, n) ==
    IF n = 0 THEN [val |-> <<>>, st |-> st]
    ELSE LET before == serialize_dict(self, st, items, n - 1)
             v == ctx_serialize(self, before.st, items[n].val)
         IN [val |-> dict_set(before.val, items[n].key, v.val), st |-> v.st]

\* [self.serialize(v) for v in value], the first n elements.
serialize_list(self, st, items, n) ==
    IF n = 0 THEN [val |-> <<>>, st |-> st]
    ELSE LET before == serialize_list(self, st, items, n - 1)
             v == ctx_serialize(self, before.st, items[n])
         IN [val |-> Append(before.val, v.val), st |-> v.st]

\* serialize(spec): the utility entry point, referencing disabled.
serialize(spec) ==
    ctx_serialize(Context(TRUE, FALSE), State(<<>>, <<>>, "ok"), spec)

\* ------------------------------------------------------------------ inputs
\* A referenceable schema object: ref_name is kept out of the output by
\* its non_spec metadata, type_ avoids the reserved word.
Schema(ref_name, type_, items) ==
    Obj("Schema", TRUE, ref_name,
        <<Field(<<"r", "e", "f", "_", "n", "a", "m", "e">>, NonSpec,
                IF ref_name = NoRefName THEN None ELSE Str(ref_name)),
          Field(<<"t", "y", "p", "e", "_">>, NoMeta, Str(type_)),
          Field(<<"i", "t", "e", "m", "s">>, NoMeta, items)>>)

Widget == Schema(<<"W">>, <<"o", "b", "j">>, SKIP)
\* a different object under the same reference name
WidgetOther == Schema(<<"W">>, <<"s", "t", "r">>, SKIP)
Anonymous == Schema(NoRefName, <<"s", "t", "r">>, SKIP)
\* a named object holding a named object, and an anonymous one holding one
Vector == Schema(<<"V">>, <<"a", "r", "r">>, Widget)
AnonymousVector == Schema(NoRefName, <<"a", "r", "r">>, Widget)
Pool == {Widget, WidgetOther, Anonymous, Vector, AnonymousVector}

PathLists == UNION {[1..n -> Pool] : n \in 0..MaxPaths}
TagValues == {SKIP, WidgetOther, Dict(<<Item(<<"k">>, Vector)>>)}
ComponentsValues == {SKIP, None, ComponentsObj}
\* What a Components instance handed in with the root may already hold.
InitialRegistries == {<<>>, <<Item(<<"W">>, Widget)>>}

F_openapi == <<"o", "p", "e", "n", "a", "p", "i">>
F_paths == <<"p", "a", "t", "h", "s">>
F_components == <<"c", "o", "m", "p", "o", "n", "e", "n", "t", "s">>
F_tags == <<"t", "a", "g", "s">>
F_schemas == <<"s", "c", "h", "e", "m", "a", "s">>
F_ref == <<"$", "r", "e", "f">>

\* The root document object.  components_last chooses where the class
\* declares its components field: before tags, or as its last field.
OpenAPI(paths, comps, tags, components_last) ==
    LET f_c == Field(F_components, NoMeta, comps)
        f_t == Field(F_tags, NoMeta, tags)
    IN Obj("OpenAPI", FALSE, NoRefName,
           <<Field(F_openapi, NoMeta, Str(<<"3">>)),
             Field(F_paths, NoMeta, List(paths))>>
           \o (IF components_last THEN <<f_t, f_c>> ELSE <<f_c, f_t>>))

Roots == {OpenAPI(p, c, t, l) : p \in PathLists, c \in ComponentsValues,
                                t \in TagValues, l \in BOOLEAN}

\* getattr(obj, name)
FieldValue(obj, name) ==
    LET i == CHOOSE j \in 1..Len(obj.fields) : obj.fields[j].name = name
    IN obj.fields[i].value

\* Inputs of the direct calls.
KeyAlphabet == {"_", "a", "B"}
Keys == UNION {[1..n -> KeyAlphabet] : n \in 0..MaxKeyLen}
          \cup {<<"_", "i", "n">>, <<"t", "y", "p", "e", "_">>}
Attributes == {NoMeta, SpecName(<<"o">>)}

FieldNames == <<<<"_", "i", "n">>, <<"t", "y", "p", "e", "_">>, <<"a", "_", "b">>, <<"x">>>>
FieldValues == {SKIP, None, Str(<<"v">>)}
FieldMetas(name) == {NoMeta, NonSpec, SpecName(<<"$">> \o name)}
\* Objects of a class with the first n field names, every combination of
\* value and metadata.
FieldSeqs(n) ==
    {fs \in [1..n -> [name : {FieldNames[i] : i \in 1..n},
                      metadata : UNION {FieldMetas(FieldNames[i]) : i \in 1..n},
                      value : FieldValues]] :
        \A i \in 1..n : fs[i].name = FieldNames[i]
                        /\ fs[i].metadata \in FieldMetas(FieldNames[i])}
PlainObjects == {Obj("Plain", FALSE, NoRefName, fs) : fs \in FieldSeqs(MaxFields)}

Values == Pool \cup {List(<<Widget, WidgetOther>>), Dict(<<Item(<<"k">>, Vector)>>),
                     Str(<<"v">>), None}
Contexts == {Context(d, c) : d \in BOOLEAN, c \in BOOLEAN}

\* ------------------------------------------------------------------- state
VARIABLES
    pc,                    \* position inside serialize_spec
    root,                  \* serialize_spec's spec argument
    disable_referencing,   \* serialize_spec's disable_referencing argument
    registry,              \* the Components instance bound to `components`
    serialized,            \* pass 1's output, later the returned mapping
    serialized_components, \* pass 2's output (the rebound `components`)
    log,                   \* the calls made on the registry, in order
    call                   \* the last direct call of a helper and its result

vars == <<pc, root, disable_referencing, registry, serialized,
          serialized_components, log, call>>

NoCall == [fn |-> "none"]

Init ==
    /\ pc = "idle"
    /\ root = None
    /\ disable_referencing = FALSE
    /\ registry = <<>>
    /\ serialized = None
    /\ serialized_components = None
    /\ log = <<>>
    /\ call = NoCall

\* serialize_spec, lines 20-27: bind `components`.
Begin(spec, given, dr) ==
    /\ pc = "idle"
    /\ given # <<>> => IsComponents(FieldValue(spec, F_components))
    /\ pc' = "pass1"
    /\ root' = spec
    /\ disable_referencing' = dr
    /\ registry' = IF FieldValue(spec, F_components) # None
                      /\ FieldValue(spec, F_components) # SKIP
                   THEN given
                   ELSE <<>>
    /\ serialized' = None
    /\ serialized_components' = None
    /\ log' = <<>>
    /\ call' = NoCall

\* The context of pass 1 (line 29-30).
Pass1Context(dr) == Context(FALSE, TRUE)

\* serialize_spec, lines 29-31: pass 1.
Pass1 ==
    /\ pc = "pass1"
    /\ LET r == ctx_serialize(Pass1Context(disable_referencing),
                              State(registry, log, "ok"), root)
       IN /\ serialized' = r.val
          /\ registry' = r.st.reg
          /\ log' = r.st.log
          /\ pc' = IF r.st.err = "ok" THEN "pass2" ELSE "raised"
    /\ UNCHANGED <<root, disable_referencing, serialized_components, call>>

\* The context of pass 2 (lines 35-36).
Pass2Context == Context(TRUE, FALSE)

\* serialize_spec, lines 35-37: pass 2 over the registry.
Pass2 ==
    /\ pc = "pass2"
    /\ LET r == ctx_serialize(Pass2Context,
                              State(registry,
                                    Append(log, Event("serialize_components",
                                                      ComponentsObj, FALSE)),
                                    "ok"),
                              ComponentsObj)
       IN /\ serialized_components' = r.val
          /\ registry' = r.st.reg
          /\ log' = r.st.log
          /\ pc' = IF r.st.err = "ok" THEN "merge" ELSE "raised"
    /\ UNCHANGED <<root, disable_referencing, serialized, call>>

\* Variant: the key is always added as a new last item.
set_components_appends(d, comps) == Dict(Append(d.items, Item(F_components, comps)))

\* serialized['components'] = components (line 39)
set_components(d, comps) == Dict(dict_set(d.items, F_components, comps))

\* serialize_spec, lines 39-41: merge and return.
Merge ==
    /\ pc = "merge"
    /\ serialized' = set_components(serialized, serialized_components)
    /\ pc' = "done"
    /\ UNCHANGED <<root, disable_referencing, registry, serialized_components, log, call>>

\* serialize(spec) called directly.
CallSerialize(v) ==
    /\ pc = "idle"
    /\ call' = [fn |-> "serialize", arg |-> v, res |-> serialize(v)]
    /\ pc' = "called"
    /\ UNCHANGED <<root, disable_referencing, registry, serialized,
                   serialized_components, log>>

\* SerializationContext(...).serialize(obj) called directly; given is the
\* content of the Components instance when there is one.
CallContextSerialize(self, given, v) ==
    /\ pc = "idle"
    /\ given # <<>> => self.has_components
    /\ call' = [fn |-> "SerializationContext.serialize", self |-> self, arg |-> v,
                res |-> ctx_serialize(self, State(given, <<>>, "ok"), v)]
    /\ pc' = "called"
    /\ UNCHANGED <<root, disable_referencing, registry, serialized,
                   serialized_components, log>>

\* spec_to_dict(spec) called directly.
CallSpecToDict(obj) ==
    /\ pc = "idle"
    /\ call' = [fn |-> "spec_to_dict", arg |-> obj, res |-> spec_to_dict(obj, <<>>)]
    /\ pc' = "called"
    /\ UNCHANGED <<root, disable_referencing, registry, serialized,
                   serialized_components, log>>

\* rename_key(key, a) called directly.
CallRenameKey(key, a) ==
    /\ pc = "idle"
    /\ call' = [fn |-> "rename_key", key |-> key, a |-> a, res |-> rename_key(key, a)]
    /\ pc' = "called"
    /\ UNCHANGED <<root, disable_referencing, registry, serialized,
                   serialized_components, log>>

Next ==
    \/ \E spec \in Roots, given \in InitialRegistries, dr \in BOOLEAN :
          Begin(spec, given, dr)
    \/ Pass1
    \/ Pass2
    \/ Merge
    \/ \E v \in Values : CallSerialize(v)
    \/ \E self \in Contexts, given \in InitialRegistries, v \in Values :
          CallContextSerialize(self, given, v)
    \/ \E obj \in PlainObjects : CallSpecToDict(obj)
    \/ \E key \in Keys, a \in Attributes : CallRenameKey(key, a)

Spec == Init /\ [][Next]_vars

\* ------------------------------------------------------- reading the output
\* The Reference Token locating reference name n, as it is rendered.
TokenFor(n) == Dict(<<Item(F_ref, Str(LocatorPrefix \o n))>>)

\* The locator strings of the tokens anywhere in a serialized tree.
RECURSIVE TokenTargets(_)
TokenTargets(v) ==
    IF v.k = "dict"
    THEN (IF HasKey(v.items, F_ref) THEN {dict_get(v.items, F_ref)} ELSE {})
         \cup UNION {TokenTargets(v.items[i].val) : i \in 1..Len(v.items)}
    ELSE IF v.k = "list"
    THEN UNION {TokenTargets(v.items[i]) : i \in 1..Len(v.items)}
    ELSE {}

\* The number of mappings with a "type" key in a serialized tree: the
\* schema objects expanded inline.
RECURSIVE SumOver(_, _, _)
SumOver(Op(_), items, n) == IF n = 0 THEN 0 ELSE SumOver(Op, items, n - 1) + Op(items[n])
RECURSIVE Expansions(_)
Expansions(v) ==
    IF v.k = "dict"
    THEN (IF HasKey(v.items, <<"t", "y", "p", "e">>) THEN 1 ELSE 0)
         + SumOver(LAMBDA it : Expansions(it.val), v.items, Len(v.items))
    ELSE IF v.k = "list"
    THEN SumOver(Expansions, v.items, Len(v.items))
    ELSE 0

\* The number of Schema objects in an object graph, at any depth.
RECURSIVE Schemas(_)
Schemas(v) ==
    IF v.k = "obj"
    THEN (IF v.cls = "Schema" THEN 1 ELSE 0)
         + SumOver(LAMBDA f : Schemas(f.value), v.fields, Len(v.fields))
    ELSE IF v.k = "dict"
    THEN SumOver(LAMBDA it : Schemas(it.val), v.items, Len(v.items))
    ELSE IF v.k = "list"
    THEN SumOver(Schemas, v.items, Len(v.items))
    ELSE 0

\* The reference names of the named objects of an object graph that are
\* not held inside another named object.
RECURSIVE OuterNames(_)
OuterNames(v) ==
    IF v.k = "obj"
    THEN IF v.mbr /\ v.ref_name # NoRefName THEN {v.ref_name}
         ELSE UNION {OuterNames(v.fields[i].value) : i \in 1..Len(v.fields)}
    ELSE IF v.k = "dict"
    THEN UNION {OuterNames(v.items[i].val) : i \in 1..Len(v.items)}
    ELSE IF v.k = "list"
    THEN UNION {OuterNames(v.items[i]) : i \in 1..Len(v.items)}
    ELSE {}

KeyCount(items, key) == Cardinality({i \in 1..Len(items) : items[i].key = key})
KeySeq(items) == [i \in 1..Len(items) |-> items[i].key]
IsNamed(v) == IsMayBeReferenced(v) /\ v.ref_name # NoRefName

RootPaths == FieldValue(root, F_paths).items
RootComponents == FieldValue(root, F_components)
RootTags == FieldValue(root, F_tags)
\* The returned document without its components key, and the definitions
\* under that key.
Body == Dict(SelectSeq(serialized.items, LAMBDA it : it.key # F_components))
Definitions == dict_get(dict_get(serialized.items, F_components).items, F_schemas).items
StoreEvents == {i \in 1..Len(log) : log[i].op = "store"}

\* ------------------------------------------------------------------ claims
PathsOut == dict_get(serialized.items, F_paths).items
EqualNamedPair(i, j) ==
    /\ i < j
    /\ RootPaths[i] = RootPaths[j]
    /\ IsNamed(RootPaths[i])

C2_FirstWriteWins ==
    /\ pc # "raised"
    /\ pc = "done" =>
        \A i, j \in 1..Len(log) :
            (/\ i < j
             /\ log[i].op = "store"
             /\ log[j].op = "get_stored"
             /\ log[j].name = log[i].name
             /\ log[j].obj # log[i].obj) =>
                LET n == log[i].name
                IN /\ log[j].found
                   /\ log[j + 1].op = "found_existing"
                   /\ log[j + 1].obj = log[j].obj
                   /\ \A e \in StoreEvents : log[e].name = n => e = i
                   /\ KeyCount(registry, n) = 1
                   /\ dict_get(registry, n) = log[i].obj
                   /\ KeyCount(Definitions, n) = 1
                   /\ dict_get(Definitions, n) = serialize(log[i].obj).val

\* C2 witness: a finished call on <<Widget, WidgetOther>>, both named W.
C2_Witness ==
    /\ pc = "done"
    /\ RootComponents = SKIP
    /\ RootPaths = <<Widget, WidgetOther>>
    /\ dict_get(registry, <<"W">>) = Widget

\* The registry calls logged after pass 2 began.
Pass2Began == \E i \in 1..Len(log) : log[i].op = "serialize_components"
Pass2Start == CHOOSE i \in 1..Len(log) : log[i].op = "serialize_components"
SchemasStored == SumOver(LAMBDA it : Schemas(it.val), registry, Len(registry))
ReferencingDisabledCall ==
    \/ call.fn = "serialize"
    \/ call.fn = "SerializationContext.serialize" /\ call.self.disable_referencing

\* C3: with referencing disabled no Reference Token is produced: pass 2 of
\* serialize_spec and serialize(spec) (and any context with
\* disable_referencing set) finish without raising, return a tree without
\* tokens in which every schema object of the input, at any depth and named
\* or not, is expanded inline, and make no call on the registry.
C3_NoTokenWhenDisabled ==
    /\ pc # "raised"
    /\ pc \in {"merge", "done"} =>
          /\ TokenTargets(serialized_components) = {}
          /\ Expansions(serialized_components) = SchemasStored
          /\ Pass2Began /\ Pass2Start = Len(log)
    /\ ReferencingDisabledCall =>
          /\ call.res.st.err = "ok"
          /\ TokenTargets(call.res.val) = {}
          /\ Expansions(call.res.val) = Schemas(call.arg)
          /\ call.res.st.log = <<>>

\* C3 witness: pass 2 has serialized a registry holding Vector, a named
\* object that holds the named object Widget.
C3_Witness ==
    /\ pc = "merge"
    /\ \E i \in 1..Len(registry) : registry[i].val = Vector
    /\ Expansions(serialized_components) >= 2

\* C4 as stated: the returned mapping has exactly one components key, it is
\* the last key, and its value is the pass 2 serialization of the registry
\* as pass 1 left it, holding every stored definition once and inline.
ComponentsIndex ==
    CHOOSE i \in 1..Len(serialized.items) : serialized.items[i].key = F_components
MaterializedRegistry ==
    Dict(<<Item(F_schemas,
                Dict([i \in 1..Len(registry) |->
                        Item(registry[i].key, serialize(registry[i].val).val)]))>>)
C4_ValueAndCount ==
    /\ KeyCount(serialized.items, F_components) = 1
    /\ dict_get(serialized.items, F_components) = MaterializedRegistry
    /\ \A e \in StoreEvents : KeyCount(Definitions, log[e].name) = 1
    /\ TokenTargets(dict_get(serialized.items, F_components)) = {}
C4_Original ==
    pc = "done" =>
        /\ C4_ValueAndCount
        /\ ComponentsIndex = Len(serialized.items)

\* The output keys pass 1 produces for the root: the rendered names of its
\* fields that are not SKIP, in declaration order.
RootKeys ==
    LET present == SelectSeq(root.fields, LAMBDA f : f.value # SKIP)
    IN [i \in 1..Len(present) |-> rename_key(present[i].name, present[i].metadata).val]

\* C4 (amended): the returned mapping has exactly one components key whose
\* value is the pass 2 serialization of the registry as pass 1 left it,
\* holding every stored definition once and inline.  The key is the last
\* one when the root's components field is SKIP; when the field is a
\* Components object or None, the key keeps the place pass 1 gave it, the
\* declaration position of the components field.
C4_MergedShape ==
    pc = "done" =>
        /\ C4_ValueAndCount
        /\ IF RootComponents = SKIP
           THEN KeySeq(serialized.items) = Append(RootKeys, F_components)
           ELSE KeySeq(serialized.items) = RootKeys

\* C4 witness: a finished call whose root declares tags after a Components
\* object, with a definition stored: the components key is not the last.
C4_Witness ==
    /\ pc = "done"
    /\ RootComponents = ComponentsObj
    /\ RootTags # SKIP
    /\ StoreEvents # {}
    /\ ComponentsIndex < Len(serialized.items)

RenderedName(f) == rename_key(f.name, f.metadata).val

\* C5: a field of the object is a key of spec_to_dict's mapping exactly
\* when its value is not SKIP and its metadata does not mark it non_spec;
\* a field holding None (and not non_spec) is there with the value None.
C5_FieldFiltering ==
    call.fn = "spec_to_dict" =>
        /\ call.res.err = "ok"
        /\ \A i \in 1..Len(call.arg.fields) :
              LET f == call.arg.fields[i]
              IN /\ HasKey(call.res.val.items, RenderedName(f))
                      <=> (f.value # SKIP /\ ~f.metadata.non_spec)
                 /\ (f.value = None /\ ~f.metadata.non_spec) =>
                      dict_get(call.res.val.items, RenderedName(f)) = None
                 /\ HasKey(call.res.val.items, RenderedName(f)) =>
                      dict_get(call.res.val.items, RenderedName(f)) = f.value

\* C5 witness: spec_to_dict was applied to an object with a None field that
\* is kept and a SKIP field that is dropped.
C5_Witness ==
    /\ call.fn = "spec_to_dict"
    /\ \E i, j \in 1..Len(call.arg.fields) :
          /\ call.arg.fields[i].value = None
          /\ HasKey(call.res.val.items, RenderedName(call.arg.fields[i]))
          /\ call.arg.fields[j].value = SKIP
          /\ ~HasKey(call.res.val.items, RenderedName(call.arg.fields[j]))

\* One leading and one trailing underscore removed, as the claim states it.
StripUnderscores(key) ==
    LET k1 == IF key # <<>> /\ key[1] = "_" THEN Tail(key) ELSE key
    IN IF k1 # <<>> /\ Last(k1) = "_" THEN Front(k1) ELSE k1
StripLeavesEmpty(key) ==
    \/ key = <<"_">>
    \/ key = <<"_", "_">>

\* C6 as stated: a field with an override name renders under the override
\* whatever its internal name, without error; only without an override are
\* the underscores stripped (an error when that leaves nothing) and the
\* rest camelCased, so _in renders as in and type_ as type.
C6_Renaming ==
    call.fn = "rename_key" =>
        /\ call.a.has_spec_name =>
              /\ call.res.err = "ok"
              /\ call.res.val = call.a.spec_name
        /\ ~call.a.has_spec_name =>
              IF StripLeavesEmpty(call.key)
              THEN call.res.err = "AssertionError"
              ELSE /\ call.res.err = "ok"
                   /\ call.res.val = camelcase(StripUnderscores(call.key))
        /\ (~call.a.has_spec_name /\ call.key = <<"_", "i", "n">>) =>
              call.res.val = <<"i", "n">>
        /\ (~call.a.has_spec_name /\ call.key = <<"t", "y", "p", "e", "_">>) =>
              call.res.val = <<"t", "y", "p", "e">>

\* C7 as stated: a context with referencing enabled and no registry
\* serializes a named referenceable object without raising, to the same
\* inline expansion as with referencing disabled.
C7_InlineWithoutRegistry ==
    (/\ call.fn = "SerializationContext.serialize"
     /\ ~call.self.disable_referencing
     /\ ~call.self.has_components
     /\ IsNamed(call.arg)) =>
        /\ call.res.st.err = "ok"
        /\ call.res.val = serialize(call.arg).val

\* C8: store is called only for a named object and only right after
\* get_stored reported no entry for that same object, hence at most once
\* per reference name; get_ref follows for the same object whether the
\* entry was found or just stored; and pass 2 reads the registry only after
\* every call pass 1 makes on it.
C8_RegistryProtocol ==
    /\ \A i \in 1..Len(log) :
          /\ log[i].op = "store" =>
                /\ log[i].name # NoRefName
                /\ i > 1
                /\ log[i - 1].op = "get_stored"
                /\ log[i - 1].obj = log[i].obj
                /\ ~log[i - 1].found
          /\ log[i].op = "get_stored" =>
                /\ i + 2 <= Len(log)
                /\ log[i + 1].op = (IF log[i].found THEN "found_existing" ELSE "store")
                /\ log[i + 1].obj = log[i].obj
                /\ log[i + 2].op = "get_ref"
                /\ log[i + 2].obj = log[i].obj
          /\ log[i].op = "get_ref" =>
                /\ i > 2
                /\ log[i - 2].op = "get_stored"
                /\ log[i - 2].obj = log[i].obj
          /\ log[i].op = "serialize_components" =>
                /\ i = Len(log)
                /\ pc \in {"merge", "done"}
    /\ \A i, j \in StoreEvents : log[i].name = log[j].name => i = j
    /\ pc \in {"idle", "pass1", "called"} => serialized_components = None

\* C8 witness: a finished call in which one object was stored and another
\* occurrence was found existing.
C8_Witness ==
    /\ pc = "done"
    /\ StoreEvents # {}
    /\ \E i \in 1..Len(log) : log[i].op = "found_existing"

\* C9 as stated: called with disable_referencing = True, serialize_spec
\* returns a document without Reference Tokens and stores nothing.
C9_HonoursDisableReferencing ==
    (pc = "done" /\ disable_referencing) =>
        /\ TokenTargets(Body) = {}
        /\ StoreEvents = {}

\* C10: every Reference Token of the returned document's body locates a
\* name that has an entry under the document's components key; the
\* definitions there hold no token; and an object is stored only when it
\* occurs outside every other named object, so a named object held inside
\* a stored definition is inline there and not registered for that.
C10_ReferentialIntegrity ==
    pc = "done" =>
        /\ \A t \in TokenTargets(Body) :
              \E i \in 1..Len(Definitions) :
                  t = Str(LocatorPrefix \o Definitions[i].key)
        /\ TokenTargets(dict_get(serialized.items, F_components)) = {}
        /\ \A e \in StoreEvents : log[e].name \in OuterNames(root)
        /\ Expansions(Dict(Definitions)) = SchemasStored

\* C10 witness: a finished call on a document whose only named object is
\* Vector, which holds Widget: V is stored and referenced, W is not stored.
C10_Witness ==
    /\ pc = "done"
    /\ RootComponents = SKIP
    /\ RootPaths = <<Vector>>
    /\ RootTags = SKIP
    /\ KeySeq(registry) = <<<<"V">>>>
    /\ TokenTargets(Body) # {}

====
